---------------------------- MODULE Spec2Model ----------------------------
(***************************************************************************)
(* Model of the concurrent load-test harness of CS6650-HW8-Dynamo          *)
(* (src/testing/test.go): main, testConnectivity, runConcurrent, the three *)
(* task bodies createCart / addItemToCart / getCart, addResult and         *)
(* calculateStatistics.                                                    *)
(*                                                                         *)
(* Every goroutine started by runConcurrent is a process whose position is *)
(* gpc[t]; it moves at the synchronisation points of the code (channel     *)
(* send/receive on the semaphore, the HTTP call, Lock/Unlock of            *)
(* resultsMutex around the append to the results slice, wg.Done).          *)
(* For the harness the service under test is the environment: each HTTP   *)
(* call returns any element of HttpOutcomes; the wall clock may pass the   *)
(* time limit at any moment of the three phases.                           *)
(*                                                                         *)
(* The service itself (src/src/dynamo.go and the handlers of the           *)
(* shopping-cart routes) is modelled in SpecService: concurrent requests   *)
(* that read and write the carts table of DynamoDB.                        *)
(***************************************************************************)
EXTENDS Integers, Sequences, FiniteSets, TLC

(***************************************************************************)
(* Sizes.  The program runs 50/50/50 tasks with 10 workers; the model      *)
(* keeps the code and scales the four numbers down.                        *)
(***************************************************************************)
NumCreateCart == 3
NumAddItems == 1
NumGetCart == 1
NumWorkers == 2

\* longest results list handed to calculateStatistics in SpecStats
MaxLen == 3

TotalOps == NumCreateCart + NumAddItems + NumGetCart

\* rand.Intn(100000) + 10000 ranges over BaseLow .. BaseLow + BaseSpan - 1
BaseLow == 10000
BaseSpan == 100000

\* MinResponseTime seed of calculateStatistics
MinSeed == 999999

Phases == 1 .. 3

NumTasks(p) ==
    CASE p = 1 -> NumCreateCart
      [] p = 2 -> NumAddItems
      [] p = 3 -> NumGetCart

Tasks == { <<p, k>> : p \in Phases, k \in 0 .. (NumCreateCart + NumAddItems + NumGetCart) } \cap
         { t \in Phases \X Nat : t[2] < NumTasks(t[1]) }

opTypes == << "create_cart", "add_items", "get_cart" >>

OpOf(p) == opTypes[p]

(***************************************************************************)
(* What http.Client.Get / Post hands back: (resp, err).  err # nil with    *)
(* resp = nil is a transport failure; err = nil comes with a response and  *)
(* its status code.  (The client's third outcome, a redirect-policy error  *)
(* that carries the last 3xx response, is not among the outcomes explored.)*)
(***************************************************************************)
Statuses == { 200, 201, 500 }

\* resp = nil: there is no status code to read
TransportError == [err |-> TRUE, resp |-> FALSE, StatusCode |-> -1]

HttpOutcomes ==
    { TransportError } \cup
    { [err |-> FALSE, resp |-> TRUE, StatusCode |-> s] : s \in Statuses }

NoResp == [err |-> FALSE, resp |-> FALSE, StatusCode |-> -1]

\* elapsed milliseconds measured by a task (time.Since(startTime))
RunDurations == { 3 }

NoResult ==
    [Operation |-> "", ResponseTime |-> 0, Success |-> FALSE,
     StatusCode |-> -1, CustomerID |-> 0]

(***************************************************************************)
(* The service under test (src/src/dynamo.go, the handlers of the          *)
(* shopping-cart routes): its carts table and the requests it handles.     *)
(***************************************************************************)
\* number of requests the service handles at the same time
MaxRequests == 3

Requests == 1 .. MaxRequests

\* customers whose cart the requests address
Customers == { BaseLow }

\* product_ids present in the products table, and one that is absent
Products == { 1, 2 }
MissingProduct == 3
ProductIDs == Products \cup { MissingProduct }

\* quantities of an add-item request (binding: min=1)
Quantities == { 1, 2 }

\* values of time.Now().Format(time.RFC3339)
Times == { 1, 2 }

\* result.Item == nil
NoItem == [exists |-> FALSE, Items |-> << >>, CreatedAt |-> 0, UpdatedAt |-> 0]

\* an idle request slot
NoRequest ==
    [kind |-> "none", customerID |-> 0, productID |-> 0, quantity |-> 0,
     pc |-> "done", cart |-> NoItem, status |-> 0, existed |-> FALSE,
     dbError |-> FALSE, puts |-> 0]

VARIABLES
    mainpc,         \* position of main
    exitCode,       \* process exit status, -1 while running
    health,         \* response of GET /health
    customerIDs,    \* main's customerIDs slice
    phase,          \* which runConcurrent call main is in (1..3)
    nextI,          \* loop variable i of runConcurrent's for loop
    count,          \* the count argument of each runConcurrent call
    carts,          \* the service's carts table in DynamoDB, by customer_id
    svc,            \* the requests the service is handling
    wg,             \* WaitGroup counter of each runConcurrent call
    semaphore,      \* number of elements in each call's semaphore channel
    gpc,            \* position of every goroutine
    http,           \* (resp, err) each task got from httpClient
    result,         \* the TestResult each task built
    appendBuf,      \* slice value read by an append in progress
    results,        \* global results
    locked,         \* resultsMutex
    stats,          \* calculateStatistics() in main
    saved,          \* outcome of saveResults
    summary,        \* what printSummary printed
    overrun,        \* the "longer than 5 minutes" warning was printed
    requests,       \* number of HTTP requests each task has issued
    late,           \* more than TimeLimit has passed since startTime
    targets         \* customer IDs selected by the closures of SpecTargets

vars == << mainpc, exitCode, health, customerIDs, phase, nextI, wg, semaphore,
           gpc, http, result, appendBuf, results, locked, stats, saved,
           summary, overrun, requests, late, targets, count, carts, svc >>

\* the variables of the load-test harness
harnessVars == << mainpc, exitCode, health, customerIDs, phase, nextI, wg,
                  semaphore, gpc, http, result, appendBuf, results, locked,
                  stats, saved, summary, overrun, requests, late, targets,
                  count >>

mainVars == << mainpc, exitCode, health, customerIDs, phase, nextI >>
reportVars == << stats, saved, summary, overrun >>

-----------------------------------------------------------------------------
(***************************************************************************)
(* Task bodies: the TestResult built from (resp, err).                     *)
(***************************************************************************)
createCart_CopyStatus(customerID, r, d) ==
    [Operation    |-> "create_cart",
     ResponseTime |-> d,
     Success      |-> (~r.err) /\ (r.StatusCode = 200 \/ r.StatusCode = 201),
     StatusCode   |-> r.StatusCode,
     CustomerID   |-> customerID]

createCart(customerID, r, d) ==
    [Operation    |-> "create_cart",
     ResponseTime |-> d,
     Success      |-> (~r.err) /\ (r.StatusCode = 200 \/ r.StatusCode = 201),
     StatusCode   |-> IF r.resp THEN r.StatusCode ELSE 0,
     CustomerID   |-> customerID]

addItemToCart(customerID, r, d) ==
    [Operation    |-> "add_items",
     ResponseTime |-> d,
     Success      |-> (~r.err) /\ (r.StatusCode = 200 \/ r.StatusCode = 201),
     StatusCode   |-> IF r.resp THEN r.StatusCode ELSE 0,
     CustomerID   |-> customerID]

getCart_Accept201(customerID, r, d) ==
    [Operation    |-> "get_cart",
     ResponseTime |-> d,
     Success      |-> (~r.err) /\ (r.StatusCode = 200 \/ r.StatusCode = 201),
     StatusCode   |-> IF r.resp THEN r.StatusCode ELSE 0,
     CustomerID   |-> customerID]

getCart(customerID, r, d) ==
    [Operation    |-> "get_cart",
     ResponseTime |-> d,
     Success      |-> (~r.err) /\ r.StatusCode = 200,
     StatusCode   |-> IF r.resp THEN r.StatusCode ELSE 0,
     CustomerID   |-> customerID]

\* the closures main passes to runConcurrent
TargetOf_Clamped(p, k, ids) ==
    IF k < Len(ids) THEN ids[k + 1] ELSE ids[Len(ids)]
TargetOf(p, k, ids) ==
    IF p = 1 THEN ids[k + 1] ELSE ids[(k % Len(ids)) + 1]

taskFunc(p, k, ids, r, d) ==
    CASE p = 1 -> createCart(TargetOf(p, k, ids), r, d)
      [] p = 2 -> addItemToCart(TargetOf(p, k, ids), r, d)
      [] p = 3 -> getCart(TargetOf(p, k, ids), r, d)

testConnectivity_ErrOnly(r) == ~r.err
testConnectivity(r) == (~r.err) /\ r.StatusCode = 200

-----------------------------------------------------------------------------
(***************************************************************************)
(* calculateStatistics                                                     *)
(***************************************************************************)
ZeroStat ==
    [Count |-> 0, Successful |-> 0, Failed |-> 0,
     AvgResponseTime |-> << 0, 1 >>, MinResponseTime |-> MinSeed,
     MaxResponseTime |-> 0, TotalResponseTime |-> 0]

StatStep_FailedAlways(stat, res, opType) ==
    IF res.Operation = opType
    THEN [stat EXCEPT
            !.Count = @ + 1,
            !.TotalResponseTime = @ + res.ResponseTime,
            !.Successful = IF res.Success THEN @ + 1 ELSE @,
            !.Failed = @ + 1,
            !.MinResponseTime =
                IF res.ResponseTime < @ THEN res.ResponseTime ELSE @,
            !.MaxResponseTime =
                IF res.ResponseTime > @ THEN res.ResponseTime ELSE @]
    ELSE stat

StatStep_AnyKind(stat, res, opType) ==
    [stat EXCEPT
        !.Count = @ + 1,
        !.TotalResponseTime = @ + res.ResponseTime,
        !.Successful = IF res.Success THEN @ + 1 ELSE @,
        !.Failed = IF res.Success THEN @ ELSE @ + 1,
        !.MinResponseTime =
            IF res.ResponseTime < @ THEN res.ResponseTime ELSE @,
        !.MaxResponseTime =
            IF res.ResponseTime > @ THEN res.ResponseTime ELSE @]

\* body of the inner loop for one record
StatStep(stat, res, opType) ==
    IF res.Operation = opType
    THEN [stat EXCEPT
            !.Count = @ + 1,
            !.TotalResponseTime = @ + res.ResponseTime,
            !.Successful = IF res.Success THEN @ + 1 ELSE @,
            !.Failed = IF res.Success THEN @ ELSE @ + 1,
            !.MinResponseTime =
                IF res.ResponseTime < @ THEN res.ResponseTime ELSE @,
            !.MaxResponseTime =
                IF res.ResponseTime > @ THEN res.ResponseTime ELSE @]
    ELSE stat

RECURSIVE StatScan(_, _, _)
StatScan(stat, rs, opType) ==
    IF rs = << >> THEN stat
    ELSE StatScan(StatStep(stat, Head(rs), opType), Tail(rs), opType)

\* the average is the exact quotient Total / Count, kept as a fraction
StatFinish(stat) ==
    IF stat.Count > 0
    THEN [stat EXCEPT !.AvgResponseTime = << stat.TotalResponseTime, stat.Count >>]
    ELSE stat

RECURSIVE StatsLoop(_, _, _)
StatsLoop(m, ops, rs) ==
    IF ops = << >> THEN m
    ELSE StatsLoop(
            (Head(ops) :> StatFinish(StatScan(ZeroStat, rs, Head(ops)))) @@ m,
            Tail(ops), rs)

calculateStatistics_TwoKinds(rs) == StatsLoop(<< >>, SubSeq(opTypes, 1, 2), rs)
calculateStatistics(rs) == StatsLoop(<< >>, opTypes, rs)

RECURSIVE countSuccessful(_)
countSuccessful(rs) ==
    IF rs = << >> THEN 0
    ELSE (IF Head(rs).Success THEN 1 ELSE 0) + countSuccessful(Tail(rs))

-----------------------------------------------------------------------------
Init ==
    /\ mainpc = "start"
    /\ exitCode = -1
    /\ health = NoResp
    /\ customerIDs = << >>
    /\ phase = 0
    /\ nextI = 0
    /\ wg = [p \in Phases |-> 0]
    /\ semaphore = [p \in Phases |-> 0]
    /\ gpc = [t \in Tasks |-> "unstarted"]
    /\ http = [t \in Tasks |-> NoResp]
    /\ result = [t \in Tasks |-> NoResult]
    /\ appendBuf = [t \in Tasks |-> << >>]
    /\ results = << >>
    /\ locked = FALSE
    /\ stats = << >>
    /\ saved = "none"
    /\ summary = << >>
    /\ overrun = FALSE
    /\ requests = [t \in Tasks |-> 0]
    /\ late = FALSE
    /\ targets = << >>
    /\ count = [p \in Phases |-> NumTasks(p)]
    /\ carts = [c \in Customers |-> NoItem]
    /\ svc = [r \in Requests |-> NoRequest]

\* the process exists: main has neither returned nor called os.Exit
Alive == mainpc \in { "start", "connectivity", "run", "stats", "save", "summary" }

(***************************************************************************)
(* main                                                                    *)
(***************************************************************************)
\* len(os.Args) < 2: usage and os.Exit(1)
MainArgs ==
    /\ mainpc = "start"
    /\ \E nargs \in { 1, 2 } :
         IF nargs < 2
         THEN mainpc' = "usage_exit" /\ exitCode' = 1
         ELSE mainpc' = "connectivity" /\ exitCode' = exitCode
    /\ UNCHANGED << carts, svc, count, requests, late, targets, health, customerIDs, phase, nextI, wg, semaphore, gpc, http,
                    result, appendBuf, results, locked, stats, saved, summary,
                    overrun >>

HealthOutcomes == HttpOutcomes

\* values of rand.Intn(100000) + 10000 explored
BaseChoices == { BaseLow }

\* customerIDs[i] = baseCustomerID + i for i < n
ProvisionedIDs_Repeating(base, n) == [k \in 1 .. n |-> base + ((k - 1) % 2)]
ProvisionedIDs(base, n) == [k \in 1 .. n |-> base + k - 1]

\* testConnectivity, then the customer IDs and entry into phase 1
MainConnectivity ==
    /\ mainpc = "connectivity"
    /\ \E r \in HealthOutcomes :
         /\ health' = r
         /\ IF ~testConnectivity(r)
            THEN /\ mainpc' = "conn_exit"
                 /\ exitCode' = 1
                 /\ UNCHANGED << customerIDs, phase, nextI >>
            ELSE /\ \E baseCustomerID \in BaseChoices :
                        customerIDs' = ProvisionedIDs(baseCustomerID, NumCreateCart)
                 /\ mainpc' = "run"
                 /\ phase' = 1
                 /\ nextI' = 0
                 /\ exitCode' = exitCode
    /\ UNCHANGED << carts, svc, count, requests, late, targets, wg, semaphore, gpc, http, result, appendBuf, results,
                    locked, stats, saved, summary, overrun >>

(***************************************************************************)
(* runConcurrent                                                           *)
(***************************************************************************)
\* one iteration of the for loop: wg.Add(1); go func(index)
GoSpawn ==
    /\ mainpc = "run"
    /\ nextI < count[phase]
    /\ wg' = [wg EXCEPT ![phase] = @ + 1]
    /\ gpc' = [gpc EXCEPT ![<< phase, nextI >>] = "acquire"]
    /\ nextI' = nextI + 1
    /\ UNCHANGED << carts, svc, count, requests, late, targets, mainpc, exitCode, health, customerIDs, phase, semaphore,
                    http, result, appendBuf, results, locked, stats, saved,
                    summary, overrun >>

\* wg.Wait() unblocks
WaitReturns_NoWait(p) == TRUE
WaitReturns_Early(p) == wg[p] <= 1
WaitReturns(p) == wg[p] = 0

\* semaphore <- struct{}{} can proceed: the channel buffer is not full
CanAcquire_OffByOne(p) == semaphore[p] <= NumWorkers
CanAcquire(p) == semaphore[p] < NumWorkers

\* resultsMutex.Lock() can proceed
CanLock_NoMutex == TRUE
CanLock == ~locked

\* the runConcurrent call that follows the p-th one in main
PhaseAfter_Skip(p) == p + 2
PhaseAfter(p) == p + 1

\* loop finished, wg.Wait() returns, runConcurrent returns to main
WgWait ==
    /\ mainpc = "run"
    /\ nextI = count[phase]
    /\ WaitReturns(phase)
    /\ IF phase < 3
       THEN /\ phase' = PhaseAfter(phase)
            /\ nextI' = 0
            /\ mainpc' = mainpc
       ELSE /\ mainpc' = "stats"
            /\ UNCHANGED << phase, nextI >>
    /\ UNCHANGED << carts, svc, count, requests, late, targets, exitCode, health, customerIDs, wg, semaphore, gpc, http,
                    result, appendBuf, results, locked, stats, saved, summary,
                    overrun >>

\* where a goroutine goes once it holds a slot: it calls taskFunc(index);
\* runConcurrent never reads the clock (l: the time limit has passed)
AfterAcquire_Deadline(l) == IF l THEN "release" ELSE "task"
AfterAcquire(l) == "task"

\* semaphore <- struct{}{}
Acquire(t) ==
    /\ Alive
    /\ gpc[t] = "acquire"
    /\ CanAcquire(t[1])
    /\ semaphore' = [semaphore EXCEPT ![t[1]] = @ + 1]
    /\ gpc' = [gpc EXCEPT ![t] = AfterAcquire(late)]
    /\ UNCHANGED << carts, svc, count, requests, late, targets, mainVars, wg, http, result, appendBuf, results, locked,
                    reportVars >>

\* where a task body goes after its request returned: it builds the record
\* and calls addResult, whatever (resp, err) is; there is no loop
AfterRequest_Retry(r) == IF r.err THEN "task" ELSE "lock"
AfterRequest(r) == "lock"

\* taskFunc(index) up to the call of addResult: the HTTP request and the record
TaskFunc(t) ==
    /\ Alive
    /\ gpc[t] = "task"
    /\ \E r \in HttpOutcomes, d \in RunDurations :
         /\ http' = [http EXCEPT ![t] = r]
         /\ result' = [result EXCEPT ![t] = taskFunc(t[1], t[2], customerIDs, r, d)]
         /\ gpc' = [gpc EXCEPT ![t] = AfterRequest(r)]
    /\ requests' = [requests EXCEPT ![t] = @ + 1]
    /\ UNCHANGED << carts, svc, count, late, targets, mainVars, wg, semaphore, appendBuf, results, locked,
                    reportVars >>

(***************************************************************************)
(* addResult.  Between Lock and Unlock the goroutine reads the slice and   *)
(* stores the extended slice; the read is taken with the Lock step and the *)
(* store with the Unlock step (accesses made while holding the mutex       *)
(* commute with the steps of every other goroutine).                       *)
(***************************************************************************)
\* resultsMutex.Lock(); append reads results
Lock(t) ==
    /\ Alive
    /\ gpc[t] = "lock"
    /\ CanLock
    /\ locked' = TRUE
    /\ appendBuf' = [appendBuf EXCEPT ![t] = results]
    /\ gpc' = [gpc EXCEPT ![t] = "append"]
    /\ UNCHANGED << carts, svc, count, requests, late, targets, mainVars, wg, semaphore, http, result, results, reportVars >>

\* results = append(...) is stored; defer resultsMutex.Unlock(); addResult
\* and the task body return
Unlock(t) ==
    /\ Alive
    /\ gpc[t] = "append"
    /\ results' = Append(appendBuf[t], result[t])
    /\ appendBuf' = [appendBuf EXCEPT ![t] = << >>]
    /\ locked' = FALSE
    /\ gpc' = [gpc EXCEPT ![t] = "release"]
    /\ UNCHANGED << carts, svc, count, requests, late, targets, mainVars, wg, semaphore, http, result, reportVars >>

\* number of elements in the channel after one receive
SlotsAfterRelease_Leak(n) == n
SlotsAfterRelease(n) == n - 1

\* <-semaphore
Release(t) ==
    /\ Alive
    /\ gpc[t] = "release"
    /\ semaphore' = [semaphore EXCEPT ![t[1]] = SlotsAfterRelease(@)]
    /\ gpc' = [gpc EXCEPT ![t] = "wgdone"]
    /\ UNCHANGED << carts, svc, count, requests, late, targets, mainVars, wg, http, result, appendBuf, results, locked,
                    reportVars >>

\* defer wg.Done()
WgDone(t) ==
    /\ Alive
    /\ gpc[t] = "wgdone"
    /\ wg' = [wg EXCEPT ![t[1]] = @ - 1]
    /\ gpc' = [gpc EXCEPT ![t] = "done"]
    /\ UNCHANGED << carts, svc, count, requests, late, targets, mainVars, semaphore, http, result, appendBuf, results,
                    locked, reportVars >>

(***************************************************************************)
(* main after the three phases                                             *)
(***************************************************************************)
\* duration := time.Since(startTime); stats := calculateStatistics()
MainStats ==
    /\ mainpc = "stats"
    /\ stats' = calculateStatistics(results)
    /\ mainpc' = "save"
    /\ UNCHANGED << carts, svc, count, requests, late, targets, exitCode, health, customerIDs, phase, nextI, wg, semaphore,
                    gpc, http, result, appendBuf, results, locked, saved,
                    summary, overrun >>

SaveOutcomes == { "written", "create_error", "encode_error" }

\* where main goes after saveResults: both error branches print and return
AfterSave_Abort(o) == IF o = "written" THEN "summary" ELSE "done"
AfterSave(o) == "summary"

\* saveResults(output, filename)
MainSave ==
    /\ mainpc = "save"
    /\ \E o \in SaveOutcomes :
         /\ saved' = o
         /\ mainpc' = AfterSave(o)
    /\ UNCHANGED << carts, svc, count, requests, late, targets, exitCode, health, customerIDs, phase, nextI, wg, semaphore,
                    gpc, http, result, appendBuf, results, locked, stats,
                    summary, overrun >>

printSummary(rs, st) ==
    [Total |-> Len(rs), Successful |-> countSuccessful(rs),
     Failed |-> Len(rs) - countSuccessful(rs), Stats |-> st]

\* exit status when main returns after the success-rate message
ExitStatus_FailOnErrors(rs) == IF countSuccessful(rs) = Len(rs) THEN 0 ELSE 1
ExitStatus(rs) == 0

\* printSummary(duration, stats), the time-limit and success-rate messages,
\* then main returns
MainSummary ==
    /\ mainpc = "summary"
    /\ summary' = printSummary(results, stats)
    /\ overrun' = late
    /\ mainpc' = "done"
    /\ exitCode' = ExitStatus(results)
    /\ UNCHANGED << carts, svc, count, requests, late, targets, health, customerIDs, phase, nextI, wg, semaphore, gpc, http,
                    result, appendBuf, results, locked, stats, saved >>

\* the wall clock passes startTime + TimeLimit while the phases run
Tick ==
    /\ mainpc = "run"
    /\ ~late
    /\ late' = TRUE
    /\ UNCHANGED << carts, svc, count, requests, targets, mainVars, wg, semaphore, gpc, http, result,
                    appendBuf, results, locked, reportVars >>

Next ==
    \/ MainArgs
    \/ MainConnectivity
    \/ GoSpawn
    \/ WgWait
    \/ \E t \in Tasks : Acquire(t)
    \/ \E t \in Tasks : TaskFunc(t)
    \/ \E t \in Tasks : Lock(t)
    \/ \E t \in Tasks : Unlock(t)
    \/ \E t \in Tasks : Release(t)
    \/ \E t \in Tasks : WgDone(t)
    \/ MainStats
    \/ MainSave
    \/ MainSummary
    \/ Tick

Spec == Init /\ [][Next]_vars

\* Spec with progress: the Go scheduler runs every runnable goroutine and
\* every HTTP call returns (the client has a 30 second timeout), so a step
\* is taken as long as one is possible.
SpecLive == Init /\ [][Next]_vars /\ WF_vars(Next)

-----------------------------------------------------------------------------
(***************************************************************************)
(* SpecFault: the same program with a task body that can panic.  The       *)
(* goroutine func of runConcurrent has no recover: the panic unwinds the   *)
(* goroutine (its deferred wg.Done() runs, the semaphore slot is not given *)
(* back) and then the Go runtime ends the process with exit status 2.      *)
(***************************************************************************)
\* taskFunc(index) panics; the deferred wg.Done() runs
TaskPanic(t) ==
    /\ Alive
    /\ gpc[t] = "task"
    /\ wg' = [wg EXCEPT ![t[1]] = @ - 1]
    /\ gpc' = [gpc EXCEPT ![t] = "panicked"]
    /\ UNCHANGED << carts, svc, count, requests, late, targets, mainVars, semaphore, http, result, appendBuf, results,
                    locked, reportVars >>

\* the runtime reports the unrecovered panic and exits
Crash(t) ==
    /\ Alive
    /\ gpc[t] = "panicked"
    /\ mainpc' = "crashed"
    /\ exitCode' = 2
    /\ UNCHANGED << carts, svc, count, requests, late, targets, health, customerIDs, phase, nextI, wg, semaphore, gpc, http,
                    result, appendBuf, results, locked, reportVars >>

NextFault ==
    \/ Next
    \/ \E t \in Tasks : TaskPanic(t)
    \/ \E t \in Tasks : Crash(t)

SpecFault == Init /\ [][NextFault]_vars

-----------------------------------------------------------------------------
(***************************************************************************)
(* SpecStats: calculateStatistics as a function of the results list.  main *)
(* stands before line 116 with any list of at most MaxLen records that the *)
(* task bodies can build.                                                  *)
(***************************************************************************)
StatDurations == { 1, 2 }

StatRecords ==
    { taskFunc(p, 0, << BaseLow >>, r, d) :
        p \in Phases, r \in HttpOutcomes, d \in StatDurations }

SeqsUpTo(S, n) == UNION { [1 .. m -> S] : m \in 0 .. n }

InitStats ==
    /\ mainpc = "stats"
    /\ exitCode = -1
    /\ health = [err |-> FALSE, resp |-> TRUE, StatusCode |-> 200]
    /\ customerIDs = << BaseLow >>
    /\ phase = 3
    /\ nextI = 0
    /\ wg = [p \in Phases |-> 0]
    /\ semaphore = [p \in Phases |-> 0]
    /\ gpc = [t \in Tasks |-> "done"]
    /\ http = [t \in Tasks |-> NoResp]
    /\ result = [t \in Tasks |-> NoResult]
    /\ appendBuf = [t \in Tasks |-> << >>]
    /\ results \in SeqsUpTo(StatRecords, MaxLen)
    /\ locked = FALSE
    /\ stats = << >>
    /\ saved = "none"
    /\ summary = << >>
    /\ overrun = FALSE
    /\ requests = [t \in Tasks |-> 0]
    /\ late = FALSE
    /\ targets = << >>
    /\ count = [p \in Phases |-> NumTasks(p)]
    /\ carts = [c \in Customers |-> NoItem]
    /\ svc = [r \in Requests |-> NoRequest]

NextStats == MainStats

SpecStats == InitStats /\ [][NextStats]_vars

-----------------------------------------------------------------------------
(***************************************************************************)
(* SpecTargets: the target selection of the closures main passes to        *)
(* runConcurrent, for every list of 1 .. MaxIds identifiers that main can  *)
(* build from a base identifier: customerIDs[i] for the indices of phase 1 *)
(* (one per identifier), customerIDs[i%len(customerIDs)] for the indices   *)
(* 0 .. MaxIndex-1 of phases 2 and 3.                                      *)
(***************************************************************************)
MaxIds == 3
MaxIndex == 6

\* values of rand.Intn(100000) + 10000: the two ends and one inside
TargetBases == { BaseLow, BaseLow + 1, BaseLow + BaseSpan - 1 }

InitTargets ==
    /\ mainpc = "run"
    /\ exitCode = -1
    /\ health = [err |-> FALSE, resp |-> TRUE, StatusCode |-> 200]
    /\ customerIDs \in { ProvisionedIDs(b, n) : b \in TargetBases, n \in 1 .. MaxIds }
    /\ phase \in Phases
    /\ nextI = 0
    /\ wg = [p \in Phases |-> 0]
    /\ semaphore = [p \in Phases |-> 0]
    /\ gpc = [t \in Tasks |-> IF t[1] < phase THEN "done" ELSE "unstarted"]
    /\ http = [t \in Tasks |-> NoResp]
    /\ result = [t \in Tasks |-> NoResult]
    /\ appendBuf = [t \in Tasks |-> << >>]
    /\ results = << >>
    /\ locked = FALSE
    /\ stats = << >>
    /\ saved = "none"
    /\ summary = << >>
    /\ overrun = FALSE
    /\ requests = [t \in Tasks |-> 0]
    /\ late = FALSE
    /\ targets = << >>
    /\ count = [p \in Phases |-> NumTasks(p)]
    /\ carts = [c \in Customers |-> NoItem]
    /\ svc = [r \in Requests |-> NoRequest]

\* number of task indices of a phase over ids
IndexCount(p, ids) == IF p = 1 THEN Len(ids) ELSE MaxIndex

\* the customerID the closure of the phase takes for the next index i
SelectTarget ==
    /\ mainpc = "run"
    /\ nextI < IndexCount(phase, customerIDs)
    /\ targets' = Append(targets, TargetOf(phase, nextI, customerIDs))
    /\ nextI' = nextI + 1
    /\ UNCHANGED << carts, svc, count, requests, late, mainpc, exitCode, health, customerIDs, phase, wg,
                    semaphore, gpc, http, result, appendBuf, results, locked,
                    reportVars >>

NextTargets == SelectTarget

SpecTargets == InitTargets /\ [][NextTargets]_vars

-----------------------------------------------------------------------------
(***************************************************************************)
(* SpecCounts: the three runConcurrent calls of main for every count       *)
(* argument from 0 to the number of tasks of the phase, from the entry     *)
(* into phase 1 to the return of the third call.  The goroutines are       *)
(* scheduled fairly and every HTTP call returns (30 second client          *)
(* timeout): a step is taken as long as one is possible.                   *)
(***************************************************************************)
CountChoices == { c \in [Phases -> 0 .. TotalOps] : \A p \in Phases : c[p] <= NumTasks(p) }

InitCounts ==
    /\ mainpc = "run"
    /\ exitCode = -1
    /\ health = [err |-> FALSE, resp |-> TRUE, StatusCode |-> 200]
    /\ customerIDs = ProvisionedIDs(BaseLow, NumCreateCart)
    /\ phase = 1
    /\ nextI = 0
    /\ wg = [p \in Phases |-> 0]
    /\ semaphore = [p \in Phases |-> 0]
    /\ gpc = [t \in Tasks |-> "unstarted"]
    /\ http = [t \in Tasks |-> NoResp]
    /\ result = [t \in Tasks |-> NoResult]
    /\ appendBuf = [t \in Tasks |-> << >>]
    /\ results = << >>
    /\ locked = FALSE
    /\ stats = << >>
    /\ saved = "none"
    /\ summary = << >>
    /\ overrun = FALSE
    /\ requests = [t \in Tasks |-> 0]
    /\ late = FALSE
    /\ targets = << >>
    /\ count \in CountChoices
    /\ carts = [c \in Customers |-> NoItem]
    /\ svc = [r \in Requests |-> NoRequest]

NextCounts ==
    \/ GoSpawn
    \/ WgWait
    \/ \E t \in Tasks : Acquire(t)
    \/ \E t \in Tasks : TaskFunc(t)
    \/ \E t \in Tasks : Lock(t)
    \/ \E t \in Tasks : Unlock(t)
    \/ \E t \in Tasks : Release(t)
    \/ \E t \in Tasks : WgDone(t)

SpecCounts == InitCounts /\ [][NextCounts]_vars /\ WF_vars(NextCounts)

-----------------------------------------------------------------------------
(***************************************************************************)
(* SpecService: MaxRequests concurrent requests to POST /shopping-carts    *)
(* (createShoppingCart) and POST /shopping-carts/:id/items (addItemToCart  *)
(* handler, AddToCart) for one customer.  Every call of DynamoDB is one    *)
(* step and may return an error.  The reads of the products table, which   *)
(* no request writes, are taken together with the read of the cart; the    *)
(* handler's GetCart after a successful AddToCart only shapes the body of  *)
(* the 200 response and is taken with the put.  Requests have passed       *)
(* ShouldBindJSON and strconv.Atoi.                                        *)
(***************************************************************************)
\* outcome of one call of dynamoClient: err == nil or err != nil
DbOutcomes == { "ok", "err" }

\* GetProduct(productID) returned a product (TRUE) or an error (FALSE)
GetProduct(productID, o) == o = "ok" /\ productID \in Products

\* GetCart(customerID) returned the cart (TRUE) or an error (FALSE): a
\* missing cart is an error, not an empty cart
GetCart_EmptyIfMissing(item, o) == o = "ok"
GetCart(item, o) == o = "ok" /\ item.exists

\* index of the first entry of items with product_id productID, 0 if none
RECURSIVE FindItem(_, _, _)
FindItem(items, productID, i) ==
    IF i > Len(items) THEN 0
    ELSE IF items[i].ID = productID THEN i
    ELSE FindItem(items, productID, i + 1)

\* AddToCart's loop over cart.Items and the append if !found
UpdateItems_AlwaysAppend(items, productID, quantity) ==
    Append(items, [ID |-> productID, Quantity |-> quantity])
UpdateItems(items, productID, quantity) ==
    LET i == FindItem(items, productID, 1)
    IN  IF i # 0
        THEN [items EXCEPT ![i].Quantity = @ + quantity]
        ELSE Append(items, [ID |-> productID, Quantity |-> quantity])

\* newCart of createShoppingCart
NewCart(createdAt, updatedAt) ==
    [exists |-> TRUE, Items |-> << >>, CreatedAt |-> createdAt, UpdatedAt |-> updatedAt]

\* the requests the service may receive
StartRequests ==
    { [kind |-> "create", customerID |-> c, productID |-> 0, quantity |-> 0,
       pc |-> "start", cart |-> NoItem, status |-> 0, existed |-> FALSE,
       dbError |-> FALSE, puts |-> 0] : c \in Customers }
    \cup
    { [kind |-> "add", customerID |-> c, productID |-> p, quantity |-> q,
       pc |-> "start", cart |-> NoItem, status |-> 0, existed |-> FALSE,
       dbError |-> FALSE, puts |-> 0] : c \in Customers, p \in ProductIDs, q \in Quantities }

InitService ==
    /\ mainpc = "start"
    /\ exitCode = -1
    /\ health = NoResp
    /\ customerIDs = << >>
    /\ phase = 0
    /\ nextI = 0
    /\ wg = [p \in Phases |-> 0]
    /\ semaphore = [p \in Phases |-> 0]
    /\ gpc = [t \in Tasks |-> "unstarted"]
    /\ http = [t \in Tasks |-> NoResp]
    /\ result = [t \in Tasks |-> NoResult]
    /\ appendBuf = [t \in Tasks |-> << >>]
    /\ results = << >>
    /\ locked = FALSE
    /\ stats = << >>
    /\ saved = "none"
    /\ summary = << >>
    /\ overrun = FALSE
    /\ requests = [t \in Tasks |-> 0]
    /\ late = FALSE
    /\ targets = << >>
    /\ count = [p \in Phases |-> NumTasks(p)]
    /\ carts \in [Customers -> { NoItem, NewCart(1, 1) }]
    /\ svc \in [Requests -> StartRequests]

\* createShoppingCart up to the response 200 or to newCart: GetItem, the
\* test err == nil && result.Item != nil, the two time.Now()
CreateShoppingCartGet(r) ==
    /\ svc[r].kind = "create"
    /\ svc[r].pc = "start"
    /\ \E o \in DbOutcomes :
         LET item == carts[svc[r].customerID]
         IN  IF o = "ok" /\ item.exists
             THEN svc' = [svc EXCEPT ![r].pc = "done", ![r].status = 200,
                                     ![r].existed = TRUE]
             ELSE \E createdAt \in Times, updatedAt \in Times :
                     /\ createdAt <= updatedAt
                     /\ svc' = [svc EXCEPT ![r].pc = "put",
                                           ![r].cart = NewCart(createdAt, updatedAt),
                                           ![r].existed = item.exists,
                                           ![r].dbError = (o = "err")]
    /\ UNCHANGED << carts, harnessVars >>

\* createShoppingCart from PutItem to the response 201 or 500
CreateShoppingCartPut(r) ==
    /\ svc[r].kind = "create"
    /\ svc[r].pc = "put"
    /\ \E o \in DbOutcomes :
         IF o = "ok"
         THEN /\ carts' = [carts EXCEPT ![svc[r].customerID] = svc[r].cart]
              /\ svc' = [svc EXCEPT ![r].pc = "done", ![r].status = 201,
                                    ![r].puts = @ + 1]
         ELSE /\ svc' = [svc EXCEPT ![r].pc = "done", ![r].status = 500,
                                    ![r].dbError = TRUE]
              /\ UNCHANGED carts
    /\ UNCHANGED harnessVars

\* the addItemToCart handler: GetProduct (400), then AddToCart up to the
\* marshalled cart: GetProduct, GetCart (both 500), the update of cart.Items
\* and cart.UpdatedAt
AddToCartGet(r) ==
    /\ svc[r].kind = "add"
    /\ svc[r].pc = "start"
    /\ \E o1 \in DbOutcomes, o2 \in DbOutcomes, o3 \in DbOutcomes, now \in Times :
         LET item == carts[svc[r].customerID]
         IN  IF ~GetProduct(svc[r].productID, o1)
             THEN svc' = [svc EXCEPT ![r].pc = "done", ![r].status = 400,
                                     ![r].existed = item.exists,
                                     ![r].dbError = (o1 = "err")]
             ELSE IF ~GetProduct(svc[r].productID, o2) \/ ~GetCart(item, o3)
             THEN svc' = [svc EXCEPT ![r].pc = "done", ![r].status = 500,
                                     ![r].existed = item.exists,
                                     ![r].dbError = (o2 = "err" \/ o3 = "err")]
             ELSE svc' = [svc EXCEPT
                              ![r].pc = "put",
                              ![r].existed = item.exists,
                              ![r].cart =
                                  [exists    |-> TRUE,
                                   Items     |-> UpdateItems(item.Items, svc[r].productID,
                                                             svc[r].quantity),
                                   CreatedAt |-> item.CreatedAt,
                                   UpdatedAt |-> now]]
    /\ UNCHANGED << carts, harnessVars >>

\* AddToCart's PutItem: on success AddToCart returns nil and the handler
\* answers 200, otherwise 500
AddToCartPut(r) ==
    /\ svc[r].kind = "add"
    /\ svc[r].pc = "put"
    /\ \E o \in DbOutcomes :
         IF o = "ok"
         THEN /\ carts' = [carts EXCEPT ![svc[r].customerID] = svc[r].cart]
              /\ svc' = [svc EXCEPT ![r].pc = "done", ![r].status = 200,
                                    ![r].puts = @ + 1]
         ELSE /\ svc' = [svc EXCEPT ![r].pc = "done", ![r].status = 500,
                                    ![r].dbError = TRUE]
              /\ UNCHANGED carts
    /\ UNCHANGED harnessVars

NextService ==
    \/ \E r \in Requests : CreateShoppingCartGet(r)
    \/ \E r \in Requests : CreateShoppingCartPut(r)
    \/ \E r \in Requests : AddToCartGet(r)
    \/ \E r \in Requests : AddToCartPut(r)

SpecService == InitService /\ [][NextService]_vars

-----------------------------------------------------------------------------
(***************************************************************************)
(* Vocabulary of the properties                                            *)
(***************************************************************************)
\* the goroutine holds a semaphore slot: it is inside taskFunc
InTask(t) == gpc[t] \in { "task", "lock", "append" }

\* the goroutine has left "go func": it waits for a slot or is past it
Started(t) == gpc[t] # "unstarted"

\* taskFunc has built its TestResult
Built(t) == gpc[t] \in { "lock", "append", "release", "wgdone", "done" }

\* main is past the p-th runConcurrent call
Returned(p) ==
    \/ mainpc = "run" /\ phase > p
    \/ mainpc \in { "stats", "save", "summary", "done" }

RunComplete == mainpc \in { "stats", "save", "summary", "done" }

TasksOf(p) == { t \in Tasks : t[1] = p }

\* number of occurrences of x in the list rs
Occurrences(rs, x) == Cardinality({ n \in 1 .. Len(rs) : rs[n] = x })

RECURSIVE SumCounts(_, _)
SumCounts(m, ks) ==
    IF ks = { } THEN 0
    ELSE LET k == CHOOSE x \in ks : TRUE
         IN  m[k].Count + SumCounts(m, ks \ { k })

\* a request got no response at all (transport failure)
NoResponse(t) == http[t].err /\ ~http[t].resp

-----------------------------------------------------------------------------
\* C1: in every reachable state the number of goroutines of one runConcurrent
\* call that hold a semaphore slot (acquired, not yet released) is at most
\* NumWorkers.
C1_ConcurrencyBound ==
    \A p \in Phases :
        Cardinality({ t \in TasksOf(p) : InTask(t) \/ gpc[t] = "release" }) <= NumWorkers

\* NumWorkers tasks hold a slot while a further task is blocked on the send
C1_Witness ==
    \E p \in Phases :
        /\ Cardinality({ t \in TasksOf(p) : InTask(t) }) = NumWorkers
        /\ \E t \in TasksOf(p) : gpc[t] = "acquire"

\* C2: phases never overlap: when a goroutine of a later phase exists, every
\* goroutine of every earlier phase has completed.
C2_PhasesDoNotOverlap ==
    \A t \in Tasks : \A u \in Tasks :
        (Started(t) /\ u[1] < t[1]) => gpc[u] = "done"

\* a get_cart task is inside its HTTP call after an add_items task ran
C2_Witness ==
    /\ \E t \in TasksOf(3) : gpc[t] = "task"
    /\ \E u \in TasksOf(2) : gpc[u] = "done"

\* C3: the step in which runConcurrent returns is taken only when every task
\* of that call has finished, whatever the outcome of its request: none is
\* running, none is waiting for a slot.
C3_ReturnsAfterAllTasks ==
    [][ \A p \in Phases :
            (~Returned(p) /\ Returned(p)') =>
                \A t \in TasksOf(p) : gpc[t] = "done" ]_vars

\* phase 1 has returned with a failed and a successful task in it
C3_Witness ==
    /\ Returned(1)
    /\ \E t \in TasksOf(1) : result[t].Success
    /\ \E t \in TasksOf(1) : ~result[t].Success /\ result[t] # NoResult

\* C4: after all tasks of the run have completed the results list holds
\* exactly the records the tasks built, each as often as it was built: none
\* lost, none duplicated.
C4_NoRecordLostOrDuplicated ==
    RunComplete =>
        /\ Len(results) = NumCreateCart + NumAddItems + NumGetCart
        /\ \A t \in Tasks :
              Occurrences(results, result[t]) =
                  Cardinality({ u \in Tasks : result[u] = result[t] })
        /\ \A n \in 1 .. Len(results) : \E t \in Tasks : results[n] = result[t]

\* the run is complete and two workers appended in the reverse of their
\* submission order
C4_Witness ==
    /\ RunComplete
    /\ Len(results) >= 2
    /\ results[1].CustomerID = customerIDs[2]
    /\ results[2].CustomerID = customerIDs[1]

\* C5 (as claimed): a task that panics does not crash the run, and once its
\* phase has returned a failed record of that task is in the results list.
C5_FaultIsContained ==
    \A t \in Tasks :
        gpc[t] = "panicked" =>
            /\ mainpc # "crashed"
            /\ Returned(t[1]) =>
                 \E n \in 1 .. Len(results) :
                     /\ results[n].Operation = OpOf(t[1])
                     /\ results[n].CustomerID = TargetOf(t[1], t[2], customerIDs)
                     /\ ~results[n].Success

\* C6: when the health check failed (transport error, or a status other
\* than 200) main has exited with status 1, no task was ever started and the
\* results list is empty.
C6_HealthFailureAborts ==
    (health # NoResp /\ (health.err \/ health.StatusCode # 200)) =>
        /\ mainpc = "conn_exit"
        /\ exitCode = 1
        /\ \A t \in Tasks : gpc[t] = "unstarted"
        /\ results = << >>
        /\ stats = << >>

\* the health check answered 500
C6_Witness ==
    /\ mainpc = "conn_exit"
    /\ health.resp
    /\ health.StatusCode = 500

\* C7: a task whose request got no response builds a record with
\* Success = FALSE and StatusCode = 0, and its phase goes on: when the phase
\* has returned, every task of the phase is done and recorded.
C7_TransportFailureRecorded ==
    \A t \in Tasks :
        (Built(t) /\ NoResponse(t)) =>
            /\ result[t].Success = FALSE
            /\ result[t].StatusCode = 0
            /\ Returned(t[1]) =>
                 \A u \in TasksOf(t[1]) :
                     /\ gpc[u] = "done"
                     /\ Occurrences(results, result[u]) >= 1

\* a phase returned in which one request failed in transport and another
\* one was answered
C7_Witness ==
    \E t \in TasksOf(1) : \E u \in TasksOf(1) :
        /\ Returned(1)
        /\ NoResponse(t)
        /\ http[u].resp

\* C8: after a completed run the Counts of the statistics mapping add up to
\* the number of tasks submitted in the three phases.
C8_CountsSumToSubmitted ==
    mainpc \in { "save", "summary", "done" } =>
        SumCounts(stats, DOMAIN stats) = NumCreateCart + NumAddItems + NumGetCart

\* statistics of a run with successes and failures
C8_Witness ==
    /\ mainpc = "done"
    /\ \E n \in 1 .. Len(results) : results[n].Success
    /\ \E n \in 1 .. Len(results) : ~results[n].Success

\* C9: every entry of the mapping computed by calculateStatistics has
\* Count = Successful + Failed.
C9_CountIsSuccessfulPlusFailed ==
    \A k \in DOMAIN stats :
        stats[k].Count = stats[k].Successful + stats[k].Failed

\* statistics were computed for a list with a success and a failure of one
\* kind
C9_Witness ==
    /\ mainpc = "save"
    /\ \E k \in DOMAIN stats : stats[k].Successful > 0 /\ stats[k].Failed > 0

\* C10: a create_cart or add_items record is successful iff a response with
\* status 200 or 201 was received, a get_cart record iff a response with
\* status 200 was received; a record of any other received status is failed
\* and carries that status, and the run still ends with every record and
\* exit status 0.
C10_SuccessPolicy ==
    /\ \A t \in Tasks :
          Built(t) =>
            /\ t[1] \in { 1, 2 } =>
                 (result[t].Success <=>
                    (http[t].resp /\ http[t].StatusCode \in { 200, 201 }))
            /\ t[1] = 3 =>
                 (result[t].Success <=> (http[t].resp /\ http[t].StatusCode = 200))
            /\ (http[t].resp /\ ~result[t].Success) =>
                 result[t].StatusCode = http[t].StatusCode
    /\ mainpc = "done" =>
          /\ exitCode = 0
          /\ Len(results) = NumCreateCart + NumAddItems + NumGetCart

\* a write answered 201 counts as a success, a read answered 201 as a
\* failure, a write answered 500 as a failure
C10_Witness ==
    /\ mainpc = "done"
    /\ \E t \in TasksOf(1) : http[t].StatusCode = 201 /\ result[t].Success
    /\ \E t \in TasksOf(1) : http[t].StatusCode = 500 /\ ~result[t].Success
    /\ \E t \in TasksOf(3) : http[t].StatusCode = 201 /\ ~result[t].Success

\* the task is past its append: its record is in the list
Recorded(t) == gpc[t] \in { "release", "wgdone", "done" }

\* C11: every task issues exactly one HTTP request and creates exactly one
\* record, also when the request fails: no task has issued more than one
\* request, a task that built its record has issued one, and the list holds
\* as many records of a kind as tasks of that kind are past their append.
C11_AttemptedExactlyOnce ==
    /\ \A t \in Tasks :
          /\ requests[t] <= 1
          /\ Built(t) => requests[t] = 1
          /\ requests[t] = 1 => Built(t)
    /\ \A p \in Phases :
          Cardinality({ n \in 1 .. Len(results) : results[n].Operation = OpOf(p) })
              = Cardinality({ t \in TasksOf(p) : Recorded(t) })

\* the run is complete with a transport failure and an application failure
\* in it, each after a single request
C11_Witness ==
    /\ RunComplete
    /\ \E t \in Tasks : NoResponse(t) /\ requests[t] = 1
    /\ \E t \in Tasks : http[t].StatusCode = 500 /\ requests[t] = 1

\* C12: main goes through Provisioning, Mutating, Reading, Complete in this
\* order: the phase number only grows by one, and only when the tasks of the
\* current phase are done; a goroutine is started only in its own phase and
\* never twice; the statistics are reached only from phase 3 with every task
\* done, and main ends only after the statistics and the summary.
C12_PhaseSequence ==
    [][ /\ phase' # phase =>
              /\ phase' = phase + 1
              /\ phase' \in Phases
              /\ \A t \in Tasks : t[1] <= phase => gpc[t] = "done"
        /\ (mainpc # "stats" /\ mainpc' = "stats") =>
              /\ phase = 3
              /\ \A t \in Tasks : gpc[t] = "done"
        /\ (mainpc # "done" /\ mainpc' = "done") =>
              /\ phase = 3
              /\ stats' = calculateStatistics(results')
              /\ summary' = printSummary(results', stats')
        /\ \A t \in Tasks :
              /\ (gpc[t] = "unstarted" /\ gpc'[t] # "unstarted") => t[1] = phase
              /\ gpc[t] # "unstarted" => gpc'[t] # "unstarted" ]_vars

\* Complete: the three phases ran and the report was made
C12_Witness ==
    /\ mainpc = "done"
    /\ phase = 3
    /\ summary # << >>
    /\ \A p \in Phases : \E t \in TasksOf(p) : Recorded(t)

\* C13 (as claimed): the mapping has an entry only for the kinds that occur
\* in the results list.
C13_NoEntryForAbsentKind ==
    \A k \in DOMAIN stats :
        \E n \in 1 .. Len(results) : results[n].Operation = k

\* the response of a task meets the success policy of its call site
MeetsPolicy(t) ==
    /\ http[t].resp
    /\ IF t[1] = 3 THEN http[t].StatusCode = 200
                   ELSE http[t].StatusCode \in { 200, 201 }

\* C15: the entry of each kind has Count = number of tasks submitted in the
\* phase of that kind, Successful = number of those tasks whose response met
\* the success policy, Failed = the others; with every task of a kind
\* successful the entry is (N, N, 0).
C15_StatsMatchTasks ==
    mainpc \in { "save", "summary", "done" } =>
        \A p \in Phases :
            /\ OpOf(p) \in DOMAIN stats
            /\ stats[OpOf(p)].Count = NumTasks(p)
            /\ stats[OpOf(p)].Successful =
                  Cardinality({ t \in TasksOf(p) : MeetsPolicy(t) })
            /\ stats[OpOf(p)].Failed =
                  Cardinality({ t \in TasksOf(p) : ~MeetsPolicy(t) })

\* every create_cart task was answered 201: the entry is (N, N, 0), while
\* another kind has a failure
C15_Witness ==
    /\ mainpc = "save"
    /\ \A t \in TasksOf(1) : http[t].StatusCode = 201
    /\ stats["create_cart"].Count = NumCreateCart
    /\ stats["create_cart"].Successful = NumCreateCart
    /\ stats["create_cart"].Failed = 0
    /\ \E t \in TasksOf(3) : ~MeetsPolicy(t)

\* C16: accesses to the results list exclude each other: at most one
\* goroutine is inside the append, it holds resultsMutex and the list has
\* not changed since it read it; and while main reads the list (statistics,
\* serialization, success count) every goroutine is done, so none can still
\* append.
C16_ResultsAccessExclusive ==
    /\ Cardinality({ t \in Tasks : gpc[t] = "append" }) <= 1
    /\ \A t \in Tasks :
          gpc[t] = "append" => (locked /\ appendBuf[t] = results)
    /\ mainpc \in { "stats", "save", "summary" } =>
          \A t \in Tasks : gpc[t] = "done"

\* one worker is inside the append while another waits for the mutex
C16_Witness ==
    \E t \in Tasks : \E u \in Tasks :
        /\ gpc[t] = "append"
        /\ gpc[u] = "lock"
        /\ results # << >>

\* the pre-flight health check passed
HealthPassed == health.resp /\ ~health.err /\ health.StatusCode = 200

\* C17: once the health check has passed, the run reaches the summary and
\* main returns with exit status 0, whatever the tasks' outcomes; a
\* non-zero exit status occurs only at the usage message or the failed
\* connectivity check.
C17_SummaryAlwaysReached ==
    /\ [](HealthPassed => exitCode \in { -1, 0 })
    /\ [](exitCode \notin { -1, 0 } => mainpc \in { "usage_exit", "conn_exit" })
    /\ (HealthPassed ~>
            (/\ mainpc = "done"
             /\ exitCode = 0
             /\ summary = printSummary(results, stats)))

\* the run ended with exit status 0 although every task failed
C17_Witness ==
    /\ mainpc = "done"
    /\ exitCode = 0
    /\ HealthPassed
    /\ Len(results) = NumCreateCart + NumAddItems + NumGetCart
    /\ summary.Successful = 0

\* C18: the time limit is advisory.  After the clock has passed the limit
\* every goroutine that leaves its task has still sent its one request and
\* its record is in results; when the phases are over every task is done
\* and results holds one record per task; the overrun is flagged only when
\* main ends, after the summary was printed, and it is flagged whenever the
\* limit was passed.
C18_TimeLimitAdvisory ==
    /\ late =>
          \A t \in Tasks :
              Recorded(t) =>
                  /\ requests[t] = 1
                  /\ Occurrences(results, result[t]) >= 1
    /\ (late /\ RunComplete) =>
          /\ \A t \in Tasks : gpc[t] = "done" /\ requests[t] = 1
          /\ Len(results) = NumCreateCart + NumAddItems + NumGetCart
          /\ \A p \in Phases :
                Cardinality({ n \in 1 .. Len(results) :
                                 results[n].Operation = OpOf(p) }) = NumTasks(p)
    /\ overrun => /\ mainpc = "done"
                  /\ summary = printSummary(results, stats)
    /\ mainpc = "done" => overrun = late

\* the limit passed while the phases ran, and the run still ended with every
\* record and the warning
C18_Witness ==
    /\ mainpc = "done"
    /\ overrun
    /\ summary.Total = NumCreateCart + NumAddItems + NumGetCart

\* saveResults failed: os.Create or the encoder returned an error
SaveFailed == saved \in { "create_error", "encode_error" }

\* C19: a failed write of the report file changes neither results nor the
\* statistics, main goes on to the summary, and the summary printed after a
\* failed write is the one of the results and statistics in memory, which
\* are still the statistics of the results.
C19_SaveFailureKeepsStats ==
    /\ [][ (mainpc = "save" /\ mainpc' # "save") =>
              /\ results' = results
              /\ stats' = stats
              /\ mainpc' = "summary" ]_vars
    /\ [](SaveFailed =>
              /\ stats = calculateStatistics(results)
              /\ Len(results) = NumCreateCart + NumAddItems + NumGetCart
              /\ mainpc \in { "summary", "done" }
              /\ mainpc = "done" =>
                    /\ summary = printSummary(results, stats)
                    /\ exitCode = 0)

\* the file could not be created and the summary was printed all the same
C19_Witness ==
    /\ mainpc = "done"
    /\ saved = "create_error"
    /\ summary = printSummary(results, calculateStatistics(results))
    /\ summary.Total > 0

\* C20: the a-th target chosen in phase 2 or 3 (task index a-1) is
\* customerIDs[(a-1) mod N], N the length of customerIDs; every target is an
\* element of customerIDs, the list main builds for phase 1; and two
\* different task indices less than N apart have different targets.
C20_RoundRobinTargets ==
    LET N == Len(customerIDs)
    IN  /\ \A a \in 1 .. Len(targets) :
              /\ targets[a] = customerIDs[((a - 1) % N) + 1]
              /\ \E j \in 1 .. N : targets[a] = customerIDs[j]
        /\ \A a, b \in 1 .. Len(targets) :
              (a < b /\ b - a < N) => targets[a] # targets[b]

\* with two identifiers or more the selection has wrapped around: index N
\* has the target of index 0, after N pairwise different targets
C20_Witness ==
    /\ Len(customerIDs) > 1
    /\ Len(targets) > Len(customerIDs)
    /\ targets[Len(customerIDs) + 1] = targets[1]
    /\ targets[2] # targets[1]

\* C21: the identifiers of one run are base, base+1, ... for a base in
\* 10000 .. 109999, hence pairwise different, and the create_cart tasks of
\* phase 1 take pairwise different identifiers, task i the i-th one.
C21_IdentifiersDistinct ==
    LET N == Len(customerIDs)
    IN  /\ customerIDs[1] \in BaseLow .. (BaseLow + BaseSpan - 1)
        /\ \A k \in 1 .. N : customerIDs[k] = customerIDs[1] + (k - 1)
        /\ \A j, k \in 1 .. N : j # k => customerIDs[j] # customerIDs[k]
        /\ phase = 1 =>
              /\ Len(targets) <= N
              /\ \A a \in 1 .. Len(targets) : targets[a] = customerIDs[a]
              /\ \A a, b \in 1 .. Len(targets) : a # b => targets[a] # targets[b]

\* every create_cart task of a run with MaxIds identifiers and the largest
\* base has taken its identifier
C21_Witness ==
    /\ phase = 1
    /\ Len(customerIDs) = MaxIds
    /\ Len(targets) = MaxIds
    /\ customerIDs[1] = BaseLow + BaseSpan - 1

\* the tasks the p-th runConcurrent call starts: the indices below count
Submitted(p) == { t \in TasksOf(p) : t[2] < count[p] }

\* C23: with fair scheduling and task bodies that return, every
\* runConcurrent call returns, for every count from 0 up to more than
\* NumWorkers; every goroutine that waits for a slot ends (it got the slot,
\* ran its task and gave the slot back); when the call has returned its
\* semaphore is empty, its WaitGroup is at zero and all its goroutines have
\* sent their request and ended.
C23_EveryPhaseTerminates ==
    /\ \A p \in Phases :
          (mainpc = "run" /\ phase = p) ~> Returned(p)
    /\ \A t \in Tasks :
          (gpc[t] = "acquire") ~> (gpc[t] = "done")
    /\ [](\A p \in Phases :
             Returned(p) =>
                 /\ semaphore[p] = 0
                 /\ wg[p] = 0
                 /\ \A t \in Submitted(p) : gpc[t] = "done" /\ requests[t] = 1
                 /\ \A t \in TasksOf(p) \ Submitted(p) : gpc[t] = "unstarted")

\* the three calls returned where one had more tasks than NumWorkers and
\* one had no task at all
C23_Witness ==
    /\ mainpc = "stats"
    /\ \E p \in Phases : count[p] > NumWorkers
    /\ \E p \in Phases : count[p] = 0
    /\ \A p \in Phases : semaphore[p] = 0
    /\ Len(results) = count[1] + count[2] + count[3]

\* the phase whose tasks write records of operation op
PhaseOf(op) == CHOOSE p \in Phases : OpOf(p) = op

\* C24: in results every create_cart record comes before every add_items
\* record and every add_items record before every get_cart record, in every
\* state and so in the final list; when main has ended the list holds the
\* records of all tasks.
C24_RecordsGroupedByPhase ==
    /\ \A m, n \in 1 .. Len(results) :
          m < n => PhaseOf(results[m].Operation) <= PhaseOf(results[n].Operation)
    /\ mainpc = "done" => Len(results) = TotalOps

\* a final list whose create_cart records are not in the order of the task
\* indices
C24_Witness ==
    /\ mainpc = "done"
    /\ Len(results) = TotalOps
    /\ results[1].Operation = "create_cart"
    /\ results[2].Operation = "create_cart"
    /\ results[1].CustomerID > results[2].CustomerID
    /\ results[TotalOps].Operation = "get_cart"

-----------------------------------------------------------------------------
\* the requests of one kind for customer c
CreatesOf(c) == { r \in Requests : svc[r].kind = "create" /\ svc[r].customerID = c }
AddsOf(c) == { r \in Requests : svc[r].kind = "add" /\ svc[r].customerID = c }

\* AddToCart returned nil for the request
AddReturnedNil(r) == svc[r].kind = "add" /\ svc[r].status = 200

\* total quantity of product p in the items of a cart
RECURSIVE QuantityOf(_, _)
QuantityOf(items, p) ==
    IF items = << >> THEN 0
    ELSE (IF Head(items).ID = p THEN Head(items).Quantity ELSE 0)
         + QuantityOf(Tail(items), p)

\* total quantity of product p in the requests rs
RECURSIVE QuantityAdded(_, _)
QuantityAdded(rs, p) ==
    IF rs = { } THEN 0
    ELSE LET r == CHOOSE x \in rs : TRUE
         IN  (IF svc[r].productID = p THEN svc[r].quantity ELSE 0)
             + QuantityAdded(rs \ { r }, p)

\* C22: a createShoppingCart request that found the cart of its customer in
\* the table when it read it has answered 200 and made no PutItem, and one
\* that answered 201 found no cart and made one PutItem.  (Fails: when
\* GetItem returns an error the handler goes on as if there were no cart
\* and puts an empty cart over the stored one.)
C22_ExistingCartNotWritten ==
    \A r \in Requests :
        (svc[r].kind = "create" /\ svc[r].pc = "done") =>
            /\ svc[r].existed => (svc[r].status = 200 /\ svc[r].puts = 0)
            /\ svc[r].status = 201 => (~svc[r].existed /\ svc[r].puts = 1)

\* C25: as long as no createShoppingCart has written, the stored cart of a
\* customer holds, for every product, the sum of the quantities of the
\* AddToCart calls that returned nil (the cart starts without items).
\* (Fails: two calls that both read the cart before either writes it; the
\* second PutItem replaces the first one's cart.)
C25_NoAddLost ==
    \A c \in Customers :
        (\A r \in CreatesOf(c) : svc[r].puts = 0) =>
            \A p \in Products :
                QuantityOf(carts[c].Items, p)
                    = QuantityAdded({ r \in AddsOf(c) : AddReturnedNil(r) }, p)

\* C26: with a single AddToCart request among createShoppingCart requests
\* for a customer, once AddToCart returned nil the stored cart holds its
\* product.  (Fails: a createShoppingCart that read "no cart" before the
\* cart was created, or whose GetItem failed, puts an empty cart after the
\* item was added.)
C26_CreateKeepsItems ==
    \A c \in Customers :
        Cardinality(AddsOf(c)) = 1 =>
            \A r \in AddsOf(c) :
                AddReturnedNil(r) =>
                    /\ carts[c].exists
                    /\ FindItem(carts[c].Items, svc[r].productID, 1) # 0

\* C27: every stored cart holds at most one entry per product_id.
C27_OneEntryPerProduct ==
    \A c \in Customers :
        \A i, j \in 1 .. Len(carts[c].Items) :
            i # j => carts[c].Items[i].ID # carts[c].Items[j].ID

\* two AddToCart calls for the same product returned nil one after the
\* other: one entry with the sum of the quantities
C27_Witness ==
    \E c \in Customers : \E r1, r2 \in AddsOf(c) :
        /\ r1 # r2
        /\ AddReturnedNil(r1) /\ AddReturnedNil(r2)
        /\ svc[r1].productID = svc[r2].productID
        /\ Len(carts[c].Items) = 1
        /\ carts[c].Items[1].ID = svc[r1].productID
        /\ carts[c].Items[1].Quantity = svc[r1].quantity + svc[r2].quantity

\* C28: an add-item request whose product does not exist is answered 400,
\* one whose product exists and whose cart does not exist when the request
\* is handled is answered 500 (400 only if the handler's own read of the
\* product returned an error); neither makes a PutItem, and the harness
\* records either answer as a failed add_items; the carts table changes
\* only in a step in which a request makes a PutItem, so a cart stays
\* missing while no createShoppingCart has written it.
C28_AddFailsWithoutEffect ==
    /\ [](\A r \in Requests :
             (svc[r].kind = "add" /\ svc[r].pc = "done") =>
                 /\ svc[r].productID \notin Products =>
                        (svc[r].status = 400 /\ svc[r].puts = 0)
                 /\ (svc[r].productID \in Products /\ ~svc[r].existed) =>
                        /\ svc[r].status \in { 400, 500 }
                        /\ svc[r].puts = 0
                        /\ ~svc[r].dbError => svc[r].status = 500
                 /\ svc[r].puts = 0 =>
                        ~addItemToCart(svc[r].customerID,
                                       [err |-> FALSE, resp |-> TRUE,
                                        StatusCode |-> svc[r].status], 3).Success)
    /\ [][ \A c \in Customers :
              carts'[c] # carts[c] =>
                  \E r \in Requests :
                      /\ svc'[r].puts = svc[r].puts + 1
                      /\ svc[r].kind = "add" => svc[r].existed ]_vars

\* add-item requests for a missing product and for a missing cart were
\* answered 400 and 500, and there is still no cart
C28_Witness ==
    \E c \in Customers : \E r1, r2 \in AddsOf(c) :
        /\ svc[r1].pc = "done" /\ svc[r1].status = 400
        /\ svc[r1].productID = MissingProduct
        /\ svc[r2].pc = "done" /\ svc[r2].status = 500
        /\ svc[r2].productID \in Products /\ ~svc[r2].existed /\ ~svc[r2].dbError
        /\ ~carts[c].exists

=============================================================================
